---- MODULE Spec2Model ----
(***************************************************************************)
(* The reactive state coordinator of the adblock-rust dashboard            *)
(* (src/src/lib.rs): the yew component `Model`, its messages `Msg`, the    *)
(* debounce timer held in `filter_list_update_task`, and the derived       *)
(* fields recomputed by `Model::update`.                                   *)
(*                                                                         *)
(* The adblock engine is an external library.  It is modelled over a small *)
(* vocabulary of concrete texts: what a text parses to, what an engine     *)
(* compiled from a list matches, and which answers depend on the resources *)
(* given to the engine.                                                    *)
(***************************************************************************)
EXTENDS Naturals, Sequences, FiniteSets

VARIABLES
    \* fields of struct Model (lib.rs 12-31)
    filter, parse_result, cb_result,
    filter_list, filter_list_update_task, engine, metadata,
    network_url, network_source_url, network_request_type, network_result,
    cosmetic_url, cosmetic_result,
    resources,
    \* the host around the component
    timers,        \* ids of the timeouts pending on the host event loop
    msgQueue,      \* component messages posted and not yet handled by update
    panicked,      \* an unwrap() failed inside update: the wasm instance trapped
    download,      \* the file the step just taken handed to util::save_bin_file
    \* history of the debounce timer (not program state)
    nextTimer,     \* id the next Timeout::new gets; nextTimer - 1 timers were armed
    fires,         \* fires[i]: times the callback of timer i posted FilterListTimeout
    cancelled,     \* ids of timers dropped while still pending
    superseded,    \* ids of timers still pending when a later UpdateFilterList was handled
    rebuilds,      \* FilterListTimeout messages handled so far
    burstLen, burstFires, burstRebuilds,  \* the same, within the current burst
    repeats,       \* UpdateFilter messages in a row that carried the same text
    everParsed     \* some UpdateFilter so far carried a text that parsed

vars == <<filter, parse_result, cb_result, filter_list, filter_list_update_task,
          engine, metadata, network_url, network_source_url,
          network_request_type, network_result, cosmetic_url, cosmetic_result,
          resources, timers, msgQueue, panicked, download,
          nextTimer, fires, cancelled, superseded, rebuilds,
          burstLen, burstFires, burstRebuilds, repeats, everParsed>>

modelVars == <<filter, parse_result, cb_result, filter_list,
               filter_list_update_task, engine, metadata, network_url,
               network_source_url, network_request_type, network_result,
               cosmetic_url, cosmetic_result, resources>>

(***************************************************************************)
(* Bounds                                                                  *)
(***************************************************************************)
\* Timeout::new is called at most MaxTimers times in a behaviour.
MaxTimers == 3

\* Cap of the history counter `repeats`.
MaxRepeats == 2

(***************************************************************************)
(* Option and Result values                                                *)
(***************************************************************************)
None == [tag |-> "None"]

Some(x) == [tag |-> "Some", val |-> x]

Ok(x) == [tag |-> "Ok", val |-> x]

Err(e) == [tag |-> "Err", err |-> e]

\* Result::ok()
ResultOk(r) == IF r.tag = "Ok" THEN Some(r.val) ELSE None

(***************************************************************************)
(* Input vocabulary                                                        *)
(***************************************************************************)
FilterBlank == "  "
FilterNet == "||ads.example^"
FilterScriptlet == "site.test##+js(noop.js)"
FilterBadOption == "||ads.example^$nosuchoption"

FilterTexts == {"", FilterBlank, FilterNet, FilterScriptlet, FilterBadOption}

ListRedirect == "! Title: Redirect\n||ads.example^$redirect=noop.js\nsite.test##+js(noop.js)"

ListTexts == {"", ListRedirect}

UrlAds == "https://ads.example/x"
UrlTexts == {"", UrlAds}

SourceSite == "https://site.test"
SourceTexts == {"", SourceSite}

TypeTexts == {"", "script"}

CosmeticUrlTexts == {"", SourceSite}

JsonEmpty == "[]"
JsonNoop == "[{\"name\":\"noop.js\",\"aliases\":[],\"kind\":{\"mime\":\"application/javascript\"},\"content\":\"KGZ1bmN0aW9uKCkge30pKCk7\"}]"
JsonBroken == "{"

JsonTexts == {JsonEmpty, JsonNoop, JsonBroken}

(***************************************************************************)
(* The adblock library, over the vocabulary above                          *)
(***************************************************************************)
\* adblock::lists::parse_filter: the line is trimmed first, an empty line is
\* FilterParseError::Empty.
parse_filter(text) ==
    CASE text \in {"", FilterBlank} -> Err("Empty")
      [] text = FilterNet -> Ok([kind |-> "Network", pattern |-> "||ads.example^"])
      [] text = FilterScriptlet ->
            Ok([kind |-> "Cosmetic", pattern |-> "site.test##+js(noop.js)"])
      [] text = FilterBadOption -> Err("Network(UnrecognisedOption)")

\* TryFrom<ParsedFilter> for CbRuleEquivalent: scriptlet injections have no
\* content-blocking form.
try_into(parsed) ==
    IF parsed.kind = "Network"
    THEN Ok([trigger |-> parsed.pattern, action |-> "block"])
    ELSE Err("ScriptletInjectionsNotSupported")

\* variant: and_then(|r| r.try_into().ok()), which loses a failed conversion
MapTryIntoFlatten(opt) ==
    IF opt.tag = "Some" /\ try_into(opt.val).tag = "Ok"
    THEN Some(try_into(opt.val)) ELSE None

\* Option::map
MapTryInto(opt) == IF opt.tag = "Some" THEN Some(try_into(opt.val)) ELSE None

\* FilterSet::add_filter_list: the metadata read from the list's comment lines
add_filter_list(list) ==
    CASE list = "" -> [title |-> None]
      [] list = ListRedirect -> [title |-> Some("Redirect")]

\* the rules FilterSet::add_filter_list adds to the filter set
FilterSetRules(list) ==
    CASE list = "" -> {}
      [] list = ListRedirect ->
            {"||ads.example^$redirect=noop.js", "site.test##+js(noop.js)"}

\* Engine::from_filter_set: an engine with the set's rules and no resources
from_filter_set(rules) == [rules |-> rules, resources |-> {}]

\* Engine::use_resources: replaces the engine's resources
use_resources(eng, res) ==
    [eng EXCEPT !.resources = {res[i] : i \in DOMAIN res}]

\* Request::new: fails when the request URL has no hostname
RequestNew(url, source, type) ==
    IF url = UrlAds
    THEN Ok([url |-> url, source |-> source, type |-> type])
    ELSE Err("HostnameParseError")

\* Engine::check_network_request: the BlockerResult; a matching $redirect rule
\* yields a redirect only if the engine holds the named resource
check_network_request(eng, request) ==
    LET redir == "||ads.example^$redirect=noop.js" \in eng.rules
    IN  [matched |-> redir /\ request.url = UrlAds,
         redirect |-> IF redir /\ request.url = UrlAds /\ "noop.js" \in eng.resources
                      THEN Some("noop.js") ELSE None]

\* Engine::url_cosmetic_resources: a scriptlet rule injects its script only if
\* the engine holds the scriptlet resource
url_cosmetic_resources(eng, url) ==
    [injected_script |->
        IF /\ url = SourceSite
           /\ "site.test##+js(noop.js)" \in eng.rules
           /\ "noop.js" \in eng.resources
        THEN "noop.js" ELSE ""]

\* serde_json::from_str::<Vec<Resource>>
from_str(json) ==
    CASE json = JsonEmpty -> Ok(<<>>)
      [] json = JsonNoop -> Ok(<<"noop.js">>)
      [] json = JsonBroken -> Err("EOF while parsing an object")

\* Engine::serialize_raw
serialize_raw(eng) == [rules |-> eng.rules]

(***************************************************************************)
(* Model::create                                                           *)
(***************************************************************************)
Init ==
    /\ filter = ""
    /\ parse_result = Err("Empty")
    /\ cb_result = None
    /\ filter_list = ""
    /\ filter_list_update_task = None
    /\ engine = [rules |-> {}, resources |-> {}]
    /\ metadata = [title |-> None]
    /\ network_url = ""
    /\ network_source_url = ""
    /\ network_request_type = ""
    /\ network_result = None
    /\ cosmetic_url = ""
    /\ cosmetic_result = None
    /\ resources = <<>>
    /\ timers = {}
    /\ msgQueue = <<>>
    /\ panicked = FALSE
    /\ download = None
    /\ nextTimer = 1
    /\ fires = [i \in 1..MaxTimers |-> 0]
    /\ cancelled = {}
    /\ superseded = {}
    /\ rebuilds = 0
    /\ burstLen = 0
    /\ burstFires = 0
    /\ burstRebuilds = 0
    /\ repeats = 0
    /\ everParsed = FALSE

(***************************************************************************)
(* Model::check_network_urls                                               *)
(***************************************************************************)
\* variant: only the request URL is tested for emptiness
check_network_urls_UrlOnly(eng, url, source, type) ==
    IF url = ""
    THEN None
    ELSE LET request == RequestNew(url, source, type)
         IN  Some(IF request.tag = "Ok"
                  THEN Ok(check_network_request(eng, request.val))
                  ELSE request)

check_network_urls(eng, url, source, type) ==
    IF url = "" /\ source = "" /\ type = ""
    THEN None
    ELSE LET request == RequestNew(url, source, type)
         IN  Some(IF request.tag = "Ok"
                  THEN Ok(check_network_request(eng, request.val))
                  ELSE request)

(***************************************************************************)
(* The host: yew's scheduler and the browser's timers                      *)
(***************************************************************************)
\* A UI callback or a timer callback runs as a task of its own on the
\* single-threaded event loop, and the messages it posts are handled before
\* the next task starts.  A panic traps the wasm instance for good.
HostIdle == ~panicked /\ msgQueue = <<>>

\* variant: the old handle is forgotten (Timeout::forget), not dropped
DropTimeoutForget(task, live) == live

\* Drop for gloo_timers::callback::Timeout: clearTimeout on the handle's id
DropTimeout(task, live) ==
    IF task.tag = "Some" THEN live \ {task.val} ELSE live

\* variant: a repeating timer (Interval), which stays pending after it ran
TimeoutRanInterval(id, live) == live

\* a timeout is single-shot: the host forgets it when it runs its callback
TimeoutRan(id, live) == live \ {id}

(***************************************************************************)
(* Model::update, one action per message                                   *)
(***************************************************************************)
Min(a, b) == IF a < b THEN a ELSE b

TimerHist == <<nextTimer, fires, cancelled, superseded, rebuilds,
               burstLen, burstFires, burstRebuilds>>

OtherHist == <<TimerHist, everParsed>>

\* Msg::UpdateFilter(new_value), given the value it stores in cb_result
UpdateFilterStep(new_value, cb) ==
    /\ HostIdle
    /\ filter' = new_value
    /\ parse_result' = parse_filter(new_value)
    /\ cb_result' = cb
    /\ repeats' = IF repeats >= 1 /\ filter = new_value
                  THEN Min(repeats + 1, MaxRepeats) ELSE 1
    /\ everParsed' = (everParsed \/ parse_filter(new_value).tag = "Ok")
    /\ download' = None
    /\ UNCHANGED <<filter_list, filter_list_update_task, engine, metadata,
                   network_url, network_source_url, network_request_type,
                   network_result, cosmetic_url, cosmetic_result, resources,
                   timers, msgQueue, panicked, TimerHist>>

\* variant: cb_result is computed before self.filter is assigned
UpdateFilterStaleCb(new_value) ==
    UpdateFilterStep(new_value, MapTryInto(ResultOk(parse_filter(filter))))

\* Msg::UpdateFilter(new_value)
UpdateFilter(new_value) ==
    UpdateFilterStep(new_value, MapTryInto(ResultOk(parse_filter(new_value))))

\* Msg::UpdateFilterList(new_value)
UpdateFilterList(new_value) ==
    LET live == filter_list_update_task.tag = "Some"
                    /\ filter_list_update_task.val \in timers
        kept == DropTimeout(filter_list_update_task, timers)
    IN  /\ HostIdle
        /\ nextTimer <= MaxTimers
        /\ filter_list' = new_value
        /\ network_result' = None
        /\ filter_list_update_task' = Some(nextTimer)
        /\ timers' = kept \cup {nextTimer}
        /\ nextTimer' = nextTimer + 1
        /\ cancelled' = cancelled \cup (timers \ kept)
        /\ superseded' = superseded \cup timers
        /\ burstLen' = IF live THEN burstLen + 1 ELSE 1
        /\ burstFires' = IF live THEN burstFires ELSE 0
        /\ burstRebuilds' = IF live THEN burstRebuilds ELSE 0
        /\ repeats' = 0
        /\ download' = None
        /\ UNCHANGED <<filter, parse_result, cb_result, engine, metadata,
                       network_url, network_source_url, network_request_type,
                       cosmetic_url, cosmetic_result, resources,
                       msgQueue, panicked, fires, rebuilds, everParsed>>

\* the callback given to Timeout::new: link.send_message(Msg::FilterListTimeout)
TimeoutCallback(id) ==
    /\ HostIdle
    /\ id \in timers
    /\ timers' = TimeoutRan(id, timers)
    /\ msgQueue' = Append(msgQueue, "FilterListTimeout")
    /\ fires' = [fires EXCEPT ![id] = @ + 1]
    /\ burstFires' = burstFires + 1
    /\ download' = None
    /\ UNCHANGED <<modelVars, panicked, nextTimer, cancelled,
                   superseded, rebuilds, burstLen, burstRebuilds, repeats,
                   everParsed>>

\* variant: the engine is built from a filter set the list was not added to
RebuiltEngineNoRules(list, res) ==
    use_resources(from_filter_set({}), res)

\* the filter set, engine and resources of Msg::FilterListTimeout
RebuiltEngine(list, res) ==
    use_resources(from_filter_set(FilterSetRules(list)), res)

\* Msg::FilterListTimeout, given the engine it installs and the network
\* result it stores
FilterListTimeoutStep(newEngine, newResult) ==
    /\ ~panicked
    /\ msgQueue # <<>>
    /\ Head(msgQueue) = "FilterListTimeout"
    /\ msgQueue' = Tail(msgQueue)
    /\ metadata' = add_filter_list(filter_list)
    /\ engine' = newEngine
    /\ network_result' = newResult
    /\ rebuilds' = rebuilds + 1
    /\ burstRebuilds' = burstRebuilds + 1
    /\ repeats' = 0
    /\ download' = None
    /\ UNCHANGED <<filter, parse_result, cb_result, filter_list,
                   filter_list_update_task, network_url, network_source_url,
                   network_request_type, cosmetic_url, cosmetic_result,
                   resources, timers, panicked,
                   nextTimer, fires, cancelled, superseded, burstLen,
                   burstFires, everParsed>>

\* variant: check_network_urls runs before the new engine is installed
FilterListTimeoutStale ==
    FilterListTimeoutStep(RebuiltEngine(filter_list, resources),
        check_network_urls(engine, network_url, network_source_url,
                           network_request_type))

\* Msg::FilterListTimeout
FilterListTimeout ==
    LET newEngine == RebuiltEngine(filter_list, resources)
    IN  FilterListTimeoutStep(newEngine,
            check_network_urls(newEngine, network_url, network_source_url,
                               network_request_type))

\* the three network input messages, given the new values of the fields
UpdateNetworkFields(url, source, type) ==
    /\ HostIdle
    /\ network_url' = url
    /\ network_source_url' = source
    /\ network_request_type' = type
    /\ network_result' = check_network_urls(engine, url, source, type)
    /\ repeats' = 0
    /\ download' = None
    /\ UNCHANGED <<filter, parse_result, cb_result, filter_list,
                   filter_list_update_task, engine, metadata,
                   cosmetic_url, cosmetic_result, resources,
                   timers, msgQueue, panicked, OtherHist>>

\* Msg::UpdateNetworkUrl(new_value)
UpdateNetworkUrl(new_value) ==
    UpdateNetworkFields(new_value, network_source_url, network_request_type)

\* Msg::UpdateNetworkSourceUrl(new_value)
UpdateNetworkSourceUrl(new_value) ==
    UpdateNetworkFields(network_url, new_value, network_request_type)

\* Msg::UpdateNetworkRequestType(new_value)
UpdateNetworkRequestType(new_value) ==
    UpdateNetworkFields(network_url, network_source_url, new_value)

\* Msg::UpdateCosmeticUrl(new_value), given the value it stores in
\* cosmetic_result
UpdateCosmeticUrlStep(new_value, result) ==
    /\ HostIdle
    /\ cosmetic_url' = new_value
    /\ cosmetic_result' = result
    /\ repeats' = 0
    /\ download' = None
    /\ UNCHANGED <<filter, parse_result, cb_result, filter_list,
                   filter_list_update_task, engine, metadata, network_url,
                   network_source_url, network_request_type, network_result,
                   resources, timers, msgQueue, panicked, OtherHist>>

\* variant: an empty URL is treated as "no query" and clears the result
UpdateCosmeticUrlSkipEmpty(new_value) ==
    UpdateCosmeticUrlStep(new_value,
        IF new_value = "" THEN None
        ELSE Some(url_cosmetic_resources(engine, new_value)))

\* Msg::UpdateCosmeticUrl(new_value)
UpdateCosmeticUrl(new_value) ==
    UpdateCosmeticUrlStep(new_value,
        Some(url_cosmetic_resources(engine, new_value)))

\* Msg::LoadResourcesJson(new_value), given the engine and the cosmetic
\* result it leaves when the payload parses: unwrap() panics on a parse
\* error, before any field is assigned
LoadResourcesJsonStep(new_value, newEngine, newCosmetic) ==
    LET parsed == from_str(new_value)
    IN  /\ HostIdle
        /\ repeats' = 0
        /\ download' = None
        /\ IF parsed.tag = "Ok"
           THEN /\ resources' = parsed.val
                /\ engine' = newEngine
                /\ cosmetic_result' = newCosmetic
                /\ UNCHANGED panicked
           ELSE /\ panicked' = TRUE
                /\ UNCHANGED <<resources, engine, cosmetic_result>>
        /\ UNCHANGED <<filter, parse_result, cb_result, filter_list,
                       filter_list_update_task, metadata, network_url,
                       network_source_url, network_request_type,
                       network_result, cosmetic_url,
                       timers, msgQueue, OtherHist>>

\* the resources of a payload that parses
LoadedResources(new_value) == from_str(new_value).val

\* variant: the resources go to a fresh engine, which replaces the compiled one
LoadResourcesJsonFreshEngine(new_value) ==
    LoadResourcesJsonStep(new_value,
        use_resources(from_filter_set({}), LoadedResources(new_value)),
        cosmetic_result)

\* variant: the resources are stored and never given to the engine
LoadResourcesJsonNotApplied(new_value) ==
    LoadResourcesJsonStep(new_value, engine, cosmetic_result)

\* variant: the cosmetic query is run again after the resources are applied
LoadResourcesJsonRefreshCosmetic(new_value) ==
    LoadResourcesJsonStep(new_value,
        use_resources(engine, LoadedResources(new_value)),
        IF cosmetic_result = None THEN None
        ELSE Some(url_cosmetic_resources(
                      use_resources(engine, LoadedResources(new_value)),
                      cosmetic_url)))

\* Msg::LoadResourcesJson(new_value)
LoadResourcesJson(new_value) ==
    LoadResourcesJsonStep(new_value,
        use_resources(engine, LoadedResources(new_value)),
        cosmetic_result)

\* Msg::DownloadDat, given the timer handle and the host timers it leaves
DownloadDatStep(task, live) ==
    /\ HostIdle
    /\ download' = Some([name |-> "rs-ABPFilterParserData.dat",
                         data |-> serialize_raw(engine)])
    /\ filter_list_update_task' = task
    /\ timers' = live
    /\ repeats' = 0
    /\ UNCHANGED <<filter, parse_result, cb_result, filter_list, engine,
                   metadata, network_url, network_source_url,
                   network_request_type, network_result, cosmetic_url,
                   cosmetic_result, resources, msgQueue, panicked, OtherHist>>

\* variant: the export takes the timer handle, which cancels the pending rebuild
DownloadDatTakesTask ==
    DownloadDatStep(None, DropTimeout(filter_list_update_task, timers))

\* Msg::DownloadDat
DownloadDat == DownloadDatStep(filter_list_update_task, timers)

Next ==
    \/ \E t \in FilterTexts : UpdateFilter(t)
    \/ \E t \in ListTexts : UpdateFilterList(t)
    \/ \E id \in timers : TimeoutCallback(id)
    \/ FilterListTimeout
    \/ \E t \in UrlTexts : UpdateNetworkUrl(t)
    \/ \E t \in SourceTexts : UpdateNetworkSourceUrl(t)
    \/ \E t \in TypeTexts : UpdateNetworkRequestType(t)
    \/ \E t \in CosmeticUrlTexts : UpdateCosmeticUrl(t)
    \/ \E t \in JsonTexts : LoadResourcesJson(t)
    \/ DownloadDat

Spec == Init /\ [][Next]_vars

\* The host runs a pending timeout's callback once its delay has passed, and
\* yew handles every message posted to the component.
FairSpec ==
    /\ Spec
    /\ WF_vars(\E id \in timers : TimeoutCallback(id))
    /\ WF_vars(FilterListTimeout)

(***************************************************************************)
(* Properties                                                              *)
(***************************************************************************)
AllNetworkFieldsEmpty ==
    network_url = "" /\ network_source_url = "" /\ network_request_type = ""

\* a debounce timer is pending, or its FilterListTimeout is not yet handled
RebuildPending == timers # {} \/ msgQueue # <<>>

\* C1 as stated (I2): in every state reached after an event, network_result
\* is None exactly when the three network fields are all empty.
C1_NoneIffAllEmpty ==
    (network_result = None) <=> AllNetworkFieldsEmpty

\* C1 as amended: network_result is None exactly when the three network
\* fields are all empty, except while the rebuild requested by an
\* UpdateFilterList is pending, when it may be None (cleared by that message)
\* although a field is non-empty; it is never Some while all fields are empty.
C1_NoneIffAllEmptyUnlessRebuildPending ==
    \/ ((network_result = None) <=> AllNetworkFieldsEmpty)
    \/ (network_result = None /\ RebuildPending)

\* a rebuild has restored a result that UpdateFilterList had cleared
C1_Witness ==
    /\ rebuilds >= 1
    /\ ~RebuildPending
    /\ ~AllNetworkFieldsEmpty
    /\ network_result # None

\* C2 (debounce coalescing): within a burst of UpdateFilterList messages, each
\* handled while the timer of the previous one is pending, the callback posts
\* FilterListTimeout at most once and at most one rebuild runs; once nothing
\* of the burst is pending, exactly one of each has happened and the engine
\* and metadata are those of the last text of the burst.
C2_BurstCoalesced ==
    /\ burstFires <= 1
    /\ burstRebuilds <= 1
    /\ (burstLen >= 1 /\ ~RebuildPending) =>
          /\ burstFires = 1
          /\ burstRebuilds = 1
          /\ engine.rules = FilterSetRules(filter_list)
          /\ metadata = add_filter_list(filter_list)

\* a burst of at least two messages ended in one rebuild from a non-empty list
C2_Witness ==
    /\ burstLen >= 2
    /\ ~RebuildPending
    /\ burstRebuilds = 1
    /\ filter_list = ListRedirect
    /\ engine.rules = FilterSetRules(ListRedirect)

\* C3 (cancellation): a timer that was pending when a later UpdateFilterList
\* was handled never posts FilterListTimeout; no timer posts it twice; a
\* cancelled timer never posts it; so there are never more rebuilds than
\* UpdateFilterList messages handled.
C3_SupersededTimerNeverFires ==
    /\ \A i \in superseded : fires[i] = 0
    /\ \A i \in cancelled : fires[i] = 0
    /\ \A i \in 1..MaxTimers : fires[i] <= 1
    /\ rebuilds <= nextTimer - 1

\* a timer was superseded and the timer that replaced it led to a rebuild
C3_Witness ==
    /\ superseded # {}
    /\ \E i \in 1..MaxTimers : i \notin superseded /\ fires[i] = 1
    /\ rebuilds >= 1
    /\ rebuilds < nextTimer - 1

\* C4 (I1): at most one debounce timer is pending on the host, and it is the
\* one held in filter_list_update_task, the last one armed: every timer armed
\* before it was cancelled when its handle was replaced.
C4_AtMostOneLiveTimer ==
    /\ Cardinality(timers) <= 1
    /\ \A i \in timers :
          /\ filter_list_update_task = Some(i)
          /\ i = nextTimer - 1
    /\ \A i \in superseded : i \in cancelled

\* a new timer is pending after the previous pending one was cancelled
C4_Witness ==
    /\ cancelled # {}
    /\ timers = {nextTimer - 1}
    /\ filter_list_update_task = Some(nextTimer - 1)

\* C5: a LoadResourcesJson whose payload fails to parse never aborts the
\* coordinator: no state is reached in which update has panicked.
C5_BrokenJsonNeverAborts == ~panicked

\* C6 (rebuild atomicity): in every state metadata and the engine's rules come
\* from one and the same list text; metadata is never that of a newer text
\* than the one the installed engine was compiled from.
C6_MetadataAndEngineFromSameList ==
    \E l \in ListTexts :
        /\ metadata = add_filter_list(l)
        /\ engine.rules = FilterSetRules(l)

\* a rebuild has installed the metadata and the engine of a non-empty list
C6_Witness ==
    /\ rebuilds >= 1
    /\ metadata = add_filter_list(ListRedirect)
    /\ engine.rules = FilterSetRules(ListRedirect)

\* C7 (I5): the step that handles FilterListTimeout leaves in network_result
\* the recomputation of the current network fields against the engine it
\* installs.
C7_RebuildRechecksNetwork ==
    [][rebuilds' = rebuilds + 1 =>
          network_result' = check_network_urls(engine', network_url',
                                network_source_url', network_request_type')]_vars

\* after a rebuild the stored result is a match decided by the new rules
C7_Witness ==
    /\ rebuilds >= 1
    /\ ~RebuildPending
    /\ engine.rules = FilterSetRules(ListRedirect)
    /\ network_result # None
    /\ network_result.val.tag = "Ok"
    /\ network_result.val.val.matched

\* C8: whenever network_result is not None it is the recomputation of the
\* current network fields against the engine now installed, resources
\* included.
C8_ResultFromCurrentEngine ==
    network_result # None =>
        network_result = check_network_urls(engine, network_url,
                             network_source_url, network_request_type)

\* C9 (idempotence): an UpdateFilter that carries the same text as the
\* UpdateFilter handled just before it changes no field of the component and
\* nothing on the host.
C9_UpdateFilterIdempotent ==
    [][(repeats >= 1 /\ repeats' = repeats + 1) =>
          UNCHANGED <<modelVars, timers, msgQueue, panicked>>]_vars

\* the same parsable text was applied twice in a row
C9_Witness ==
    /\ repeats >= 2
    /\ parse_result.tag = "Ok"
    /\ cb_result # None

\* C10 (I3): parse_result is the parse of the current filter text, and
\* cb_result is None if that parse failed and Some(conversion of the parsed
\* filter) if it succeeded; so cb_result is Some exactly when parse_result
\* is Ok.
C10_FilterFieldsFromCurrentText ==
    /\ parse_result = parse_filter(filter)
    /\ cb_result = IF parse_filter(filter).tag = "Ok"
                   THEN Some(try_into(parse_filter(filter).val))
                   ELSE None
    /\ (cb_result # None) <=> (parse_result.tag = "Ok")

\* the text parses and its conversion fails: cb_result is Some(Err)
C10_Witness ==
    /\ filter = FilterScriptlet
    /\ parse_result.tag = "Ok"
    /\ cb_result = Some(Err("ScriptletInjectionsNotSupported"))

\* C11 as stated: once FilterListTimeout has been handled and until the next
\* UpdateFilterList, filter_list_update_task is None.
C11_SlotEmptyAfterRebuild ==
    (rebuilds >= 1 /\ ~RebuildPending) => filter_list_update_task = None

\* C11 as amended: the step that handles FilterListTimeout leaves
\* filter_list_update_task as it was; it still holds the handle of the timer
\* that fired, and no timer is pending on the host.
C11_SlotKeepsFiredHandle ==
    [][rebuilds' = rebuilds + 1 =>
          /\ filter_list_update_task' = filter_list_update_task
          /\ filter_list_update_task'.tag = "Some"
          /\ fires'[filter_list_update_task'.val] = 1
          /\ timers' = {}]_vars

\* a rebuild is done, nothing is pending, and the slot holds the last handle
C11_Witness ==
    /\ rebuilds >= 1
    /\ ~RebuildPending
    /\ filter_list_update_task = Some(nextTimer - 1)
    /\ fires[nextTimer - 1] = 1

\* C12 as stated: once an UpdateFilter has carried a text that parsed,
\* cb_result is Some in every later state.
C12_SomeOnceParsed == everParsed => cb_result # None

\* C12 as amended: cb_result is None exactly when the current filter text
\* fails to parse, whether or not an earlier text parsed.
C12_NoneIffCurrentTextFails ==
    (cb_result = None) <=> (parse_filter(filter).tag = "Err")

\* an earlier text parsed, the current one does not, and cb_result is None
C12_Witness ==
    /\ everParsed
    /\ filter = FilterBadOption
    /\ cb_result = None

\* C13 (I4): the engine's compiled rules and metadata change only in the step
\* that handles FilterListTimeout, and that step leaves both as produced from
\* the one list text in filter_list; no other step changes either.
C13_RulesAndMetadataChangeOnlyInRebuild ==
    [][(engine'.rules # engine.rules \/ metadata' # metadata) =>
          /\ rebuilds' = rebuilds + 1
          /\ engine'.rules = FilterSetRules(filter_list)
          /\ metadata' = add_filter_list(filter_list)]_vars

\* rules and metadata of the last rebuild are still in place although the
\* list text has changed since and resources were loaded
C13_Witness ==
    /\ rebuilds >= 1
    /\ filter_list = ""
    /\ timers # {}
    /\ engine.rules = FilterSetRules(ListRedirect)
    /\ metadata = add_filter_list(ListRedirect)
    /\ engine.resources # {}

\* C14: the resources in effect in the engine are exactly those in
\* `resources`, after a rebuild as after a load.
C14_EngineHoldsLoadedResources ==
    engine.resources = {resources[i] : i \in DOMAIN resources}

\* loaded resources are in the engine after a rebuild, and a newer rebuild
\* is pending
C14_Witness ==
    /\ rebuilds >= 1
    /\ timers # {}
    /\ resources = <<"noop.js">>
    /\ engine.resources = {"noop.js"}
    /\ engine.rules # {}

\* C15: the step that handles DownloadDat hands over the serialization of the
\* installed engine and changes no field of the component, the timer handle
\* and the pending timer included.
C15_DownloadDatIsPureRead ==
    [][download' # None =>
          /\ download' = Some([name |-> "rs-ABPFilterParserData.dat",
                               data |-> serialize_raw(engine)])
          /\ UNCHANGED <<modelVars, timers, msgQueue, panicked>>]_vars

\* an engine with rules was exported while a rebuild was pending
C15_Witness ==
    /\ download # None
    /\ download.val.data.rules # {}
    /\ timers # {}
    /\ filter_list_update_task = Some(nextTimer - 1)

\* C16: every UpdateCosmeticUrl(t) step, the empty t included, leaves
\* cosmetic_url = t and cosmetic_result = Some(the cosmetic resources of t in
\* the engine installed at that step); and cosmetic_result, once Some, never
\* returns to None, so it is None only while no UpdateCosmeticUrl was handled.
C16_CosmeticResultAlwaysSome ==
    [][/\ cosmetic_result # None => cosmetic_result' # None
       /\ \A t \in CosmeticUrlTexts :
             UpdateCosmeticUrl(t) =>
                /\ cosmetic_url' = t
                /\ cosmetic_result' = Some(url_cosmetic_resources(engine, t))
                /\ engine' = engine]_vars

\* the empty URL was queried and the result is Some
C16_Witness ==
    /\ cosmetic_url = ""
    /\ cosmetic_result = Some([injected_script |-> ""])
    /\ engine.rules # {}

\* a step of one of the seven messages other than UpdateFilterList and
\* FilterListTimeout
OtherMessageStep ==
    \/ \E t \in FilterTexts : UpdateFilter(t)
    \/ \E t \in UrlTexts : UpdateNetworkUrl(t)
    \/ \E t \in SourceTexts : UpdateNetworkSourceUrl(t)
    \/ \E t \in TypeTexts : UpdateNetworkRequestType(t)
    \/ \E t \in CosmeticUrlTexts : UpdateCosmeticUrl(t)
    \/ \E t \in JsonTexts : LoadResourcesJson(t)
    \/ DownloadDat

\* the part of C17 about fields: the seven other messages leave the timer
\* handle, the host's pending timers, the posted messages and filter_list
\* unchanged
OtherMessagesLeaveTimerFields ==
    [][OtherMessageStep =>
          UNCHANGED <<filter_list_update_task, timers, msgQueue,
                      filter_list>>]_vars

\* C17: the seven other messages leave the timer handle, the pending timer
\* and filter_list unchanged, and none of them drops a pending rebuild: a
\* timer pending before the step can still deliver after it.
C17_OtherMessagesKeepPendingRebuild ==
    [][OtherMessageStep =>
          /\ UNCHANGED <<filter_list_update_task, timers, msgQueue,
                         filter_list>>
          /\ timers # {} => ~panicked']_vars

\* C18 (liveness of the debounce): a pending timer is eventually either
\* superseded by a later UpdateFilterList or followed by the rebuild, which
\* leaves the engine and metadata built from the list text; no other message
\* prevents it.
C18_PendingTimerLeadsToRebuild ==
    \A i \in 1..MaxTimers :
        (i \in timers) ~>
            \/ i \in cancelled
            \/ /\ fires[i] = 1
               /\ msgQueue = <<>>
               /\ engine.rules = FilterSetRules(filter_list)
               /\ metadata = add_filter_list(filter_list)

\* C19: whenever no debounce timer is pending and no FilterListTimeout waits
\* to be handled, the engine's rules are those compiled from the current
\* filter_list (the initial engine being that of the empty text).
C19_EngineMatchesListWhenNoTimer ==
    ~RebuildPending => engine.rules = FilterSetRules(filter_list)

\* the list text was replaced after a rebuild and rebuilt again: nothing is
\* pending and the engine is that of the current, non-empty text
C19_Witness ==
    /\ rebuilds >= 2
    /\ ~RebuildPending
    /\ filter_list = ListRedirect
    /\ engine.rules = FilterSetRules(ListRedirect)

\* C20: a step that rebuilds the engine or loads resources leaves
\* cosmetic_url and cosmetic_result unchanged, and every step that changes
\* either of them is an UpdateCosmeticUrl step; so the stored result can be
\* that of an engine no longer installed.
C20_OnlyUpdateCosmeticUrlWritesCosmetic ==
    [][/\ (rebuilds' # rebuilds \/ resources' # resources \/ engine' # engine)
            => UNCHANGED <<cosmetic_url, cosmetic_result>>
       /\ (cosmetic_url' # cosmetic_url \/ cosmetic_result' # cosmetic_result)
            => \E t \in CosmeticUrlTexts : UpdateCosmeticUrl(t)]_vars

\* after a rebuild or a load the stored cosmetic result differs from what the
\* installed engine answers for the same URL
C20_Witness ==
    /\ cosmetic_result # None
    /\ cosmetic_result # Some(url_cosmetic_resources(engine, cosmetic_url))

====
